---- MODULE Spec2Model ----
(***************************************************************************)
(* direct-executor (src/src/lib.rs): run_spinning, run and run_with_wake   *)
(* drive one future to completion on the calling thread; create_raw_waker  *)
(* fabricates the waker handed to every poll.                              *)
(*                                                                         *)
(* One run call is modelled.  The future, the wait closure and the holders *)
(* of waker clones are the environment: the future is a poll script, the   *)
(* wait closure returns or panics, and every live waker handle may be      *)
(* cloned, woken or dropped by whoever holds it.                           *)
(***************************************************************************)
EXTENDS Integers, Sequences, FiniteSets, Bags

\* ---------------------------------------------------------------- bounds
MaxPending == 2      \* a future reports Pending at most this often before its last poll
MaxHandles == 2      \* waker clones alive at the same time
MaxWakes   == 2      \* wake calls explored

\* ---------------------------------------------------------------- values
Values   == {"v7", "v42"}          \* F::Output values
NoValue  == "none"
Entries  == {"run_spinning", "run", "run_with_wake"}
Actors   == {"fut", "ext"}         \* who calls wake: the future, or another context
\* The wake closures: the caller's, `|| {}` of run, and the one of a second call.
Closures == {"user", "noop", "user2"}
WakePtr  == "&wake"                \* address of run_with_wake's `wake` parameter
WakePtr2 == "&wake'"               \* the same in the frame of a second call

Ready(v)  == [tag |-> "Ready", value |-> v]
Pending   == [tag |-> "Pending", value |-> NoValue]
Panicked  == [tag |-> "Panic", value |-> NoValue]
NotPolled == [tag |-> "None", value |-> NoValue]

\* The futures a caller may pass: Pending `pendings` times, then Ready(value)
\* or a panic; or Pending on every poll.
Futures ==
    [kind : {"ready"}, pendings : 0..MaxPending, value : Values]
    \cup [kind : {"panic"}, pendings : 0..MaxPending, value : {NoValue}]
    \cup [kind : {"never"}, pendings : {0}, value : {NoValue}]

\* What the k-th poll (k >= 1) of future f reports.
FuturePoll(f, k) ==
    IF f.kind = "never" \/ k <= f.pendings THEN Pending
    ELSE IF f.kind = "ready" THEN Ready(f.value)
    ELSE Panicked

\* The wait closures a caller may pass: the panicAt-th invocation panics
\* (0: every invocation returns).
WaitFns == [op : {"user"}, panicAt : 0..MaxPending]
SpinLoopHint == [op |-> "spin_loop_hint", panicAt |-> 0]
NoWait == [op |-> "unset", panicAt |-> 0]

\* Polls explored for a future that is never ready.
MaxPolls == MaxPending + 2

NoWaker == [data |-> "null", vtable |-> "none"]

VARIABLES
    entry,      \* the entry point the caller used
    pc,         \* the driver's position
    fut,        \* the future being driven
    wait,       \* the wait closure
    wakeSlot,   \* run_with_wake's `wake` parameter: [fn, live]
    waker,      \* run_with_wake's local `waker`: its RawWaker, or NoWaker
    clones,     \* the clones of the waker that are alive: a bag of [raw, owner]
    polls,      \* polls of the future so far
    waits,      \* invocations of the wait closure so far
    trace,      \* the poll and wait events in order
    lastPoll,   \* what the last finished poll reported
    result,     \* the value the run call returned
    exit,       \* how the loop was left: "none", "return", "panic"
    wakeCalls,  \* wake and wake_by_ref calls so far, per caller
    calls,      \* invocations of each closure, per caller of wake
    ub,         \* outcome of a wake through a dangling pointer, "no" if none
    run2        \* a second run_with_wake call on another future, or NoRun2

vars == <<entry, pc, fut, wait, wakeSlot, waker, clones, polls, waits, trace,
          lastPoll, result, exit, wakeCalls, calls, ub, run2>>

\* The first call's own variables.
run1Vars == <<entry, pc, fut, wait, wakeSlot, waker, clones, polls, waits,
              trace, lastPoll, result, exit, wakeCalls>>

driverVars == <<pc, polls, waits, trace, lastPoll, result, exit>>

\* ---------------------------------------------------------------- waker
\* A fabricator that keeps the closure's address in one place for all calls.
create_raw_waker_Shared(wake) == [data |-> WakePtr, vtable |-> "vtable<F>"]

\* create_raw_waker: the data pointer is the closure's address, the vtable
\* is the one instantiated for the closure type F.
create_raw_waker(wake) == [data |-> wake, vtable |-> "vtable<F>"]

\* vtable entry 1 (clone): a new RawWaker around the same pointer.
vt_clone(wake_ptr) == create_raw_waker(wake_ptr)

\* `(wake_ptr as *const F).as_ref().unwrap()`: what the pointer refers to.
Deref(wake_ptr, slot) ==
    IF wake_ptr \in {WakePtr, WakePtr2} /\ slot.live THEN slot.fn ELSE "dangling"

\* A wake entry that calls the closure twice.
vt_wake_Twice(wake_ptr, slot, a, c) ==
    [c EXCEPT ![Deref(wake_ptr, slot)][a] = @ + 2]

\* vtable entries 2 and 3 (wake, wake_by_ref), called by a: `wake()` once on
\* the referent; c counts the invocations of each closure.
vt_wake(wake_ptr, slot, a, c) == [c EXCEPT ![Deref(wake_ptr, slot)][a] = @ + 1]

\* A drop entry that releases the closure behind the handle.
vt_drop_Frees(wake_ptr, slot) == [slot EXCEPT !.live = FALSE]

\* vtable entry 4 (drop): `|_| {}`.
vt_drop(wake_ptr, slot) == slot

\* Vtable entry 4 on every handle of the set S, in some order.
RECURSIVE DropAll(_, _)
DropAll(S, slot) ==
    IF S = {} THEN slot
    ELSE LET h == CHOOSE x \in S : TRUE
         IN  DropAll(S \ {h}, vt_drop(h.raw.data, slot))

\* ---------------------------------------------------------------- driver
\* No second call is under way.
NoRun2 == [pc |-> "none", fut |-> [kind |-> "none", pendings |-> 0, value |-> NoValue],
           wakeSlot |-> [fn |-> "unset", live |-> FALSE], waker |-> NoWaker,
           polls |-> 0, waits |-> 0, lastPoll |-> NotPolled,
           result |-> NoValue, exit |-> "none", wakeCalls |-> 0]

Init ==
    /\ entry \in Entries
    /\ pc = entry
    /\ fut \in Futures
    /\ wait \in (IF entry = "run_spinning" THEN {NoWait} ELSE WaitFns)
    /\ wakeSlot = [fn |-> IF entry = "run_with_wake" THEN "user" ELSE "unset",
                   live |-> entry = "run_with_wake"]
    /\ waker = NoWaker
    /\ clones = EmptyBag
    /\ polls = 0
    /\ waits = 0
    /\ trace = <<>>
    /\ lastPoll = NotPolled
    /\ result = NoValue
    /\ exit = "none"
    /\ wakeCalls = [a \in Actors |-> 0]
    /\ calls = [f \in Closures |-> [a \in Actors |-> 0]]
    /\ ub = "no"
    /\ run2 = NoRun2

\* run_spinning: `run(future, || spin_loop_hint())`.
RunSpinning ==
    /\ pc = "run_spinning"
    /\ wait' = SpinLoopHint
    /\ pc' = "run"
    /\ UNCHANGED <<run2, entry, fut, wakeSlot, waker, clones, polls, waits, trace,
                   lastPoll, result, exit, wakeCalls, calls, ub>>

\* A run with a loop of its own, entered without the waker's closure.
Run_OwnLoop ==
    /\ pc = "run"
    /\ waker' = create_raw_waker(WakePtr)
    /\ pc' = "loop"
    /\ UNCHANGED <<run2, entry, fut, wait, wakeSlot, clones, polls, waits, trace,
                   lastPoll, result, exit, wakeCalls, calls, ub>>

\* run: `run_with_wake(future, wait, || {})`.
Run ==
    /\ pc = "run"
    /\ wakeSlot' = [fn |-> "noop", live |-> TRUE]
    /\ pc' = "run_with_wake"
    /\ UNCHANGED <<run2, entry, fut, wait, waker, clones, polls, waits, trace,
                   lastPoll, result, exit, wakeCalls, calls, ub>>

\* run_with_wake up to the loop: pin the future, fabricate the waker around
\* `&wake`, build the context.
RunWithWake ==
    /\ pc = "run_with_wake"
    /\ waker' = create_raw_waker(WakePtr)
    /\ pc' = "loop"
    /\ UNCHANGED <<run2, entry, fut, wait, wakeSlot, clones, polls, waits, trace,
                   lastPoll, result, exit, wakeCalls, calls, ub>>

\* A loop that gives up polling after the first attempt.
PollBegin_Bounded ==
    /\ pc = "loop"
    /\ polls < 1
    /\ polls' = polls + 1
    /\ trace' = Append(trace, "poll")
    /\ pc' = "polling"
    /\ UNCHANGED <<run2, entry, fut, wait, wakeSlot, waker, clones, waits, lastPoll,
                   result, exit, wakeCalls, calls, ub>>

\* A loop that polls again only once somebody has called wake.
PollBegin_NeedsWake ==
    /\ pc = "loop"
    /\ polls < MaxPolls
    /\ polls > 0 => wakeCalls["fut"] + wakeCalls["ext"] > 0
    /\ polls' = polls + 1
    /\ trace' = Append(trace, "poll")
    /\ pc' = "polling"
    /\ UNCHANGED <<run2, entry, fut, wait, wakeSlot, waker, clones, waits, lastPoll,
                   result, exit, wakeCalls, calls, ub>>

\* A driver that starts the next poll while wait is still executing.
PollBegin_DuringWait ==
    /\ pc \in {"loop", "waiting"}
    /\ polls < MaxPolls
    /\ polls' = polls + 1
    /\ trace' = Append(trace, "poll")
    /\ pc' = "polling"
    /\ UNCHANGED <<run2, entry, fut, wait, wakeSlot, waker, clones, waits, lastPoll,
                   result, exit, wakeCalls, calls, ub>>

\* `future.as_mut().poll(&mut context)` is entered.
PollBegin ==
    /\ pc = "loop"
    /\ polls < MaxPolls
    /\ polls' = polls + 1
    /\ trace' = Append(trace, "poll")
    /\ pc' = "polling"
    /\ UNCHANGED <<run2, entry, fut, wait, wakeSlot, waker, clones, waits, lastPoll,
                   result, exit, wakeCalls, calls, ub>>

\* A loop that polls again without waiting.
AfterPoll_NoWait(r) ==
    CASE r.tag = "Ready" -> "ret"
      [] r.tag = "Pending" -> "loop"
      [] OTHER -> "unwind"

\* A loop that waits after every poll, a finished one included.
AfterPoll_WaitOnReady(r) ==
    CASE r.tag \in {"Ready", "Pending"} -> "wait"
      [] OTHER -> "unwind"

\* A loop that returns after the first poll whatever it reported.
AfterPoll_ReturnOnPending(r) ==
    CASE r.tag \in {"Ready", "Pending"} -> "ret"
      [] OTHER -> "unwind"

\* A loop that swallows a panic of the poll and carries on.
AfterPoll_RetryOnPanic(r) ==
    CASE r.tag = "Ready" -> "ret"
      [] OTHER -> "wait"

\* `if let Poll::Ready(result) = ... { return result; } wait();`: where the
\* driver goes after a poll that reported r (a panic unwinds).
AfterPoll(r) ==
    CASE r.tag = "Ready" -> "ret"
      [] r.tag = "Pending" -> "wait"
      [] OTHER -> "unwind"

\* The poll returns (or panics).
PollEnd ==
    /\ pc = "polling"
    /\ lastPoll' = FuturePoll(fut, polls)
    /\ pc' = AfterPoll(lastPoll')
    /\ UNCHANGED <<run2, entry, fut, wait, wakeSlot, waker, clones, polls, waits, trace,
                   result, exit, wakeCalls, calls, ub>>

\* A return that loses the carried value.
Returned_Lost(r) == NoValue

\* `return result`: the value carried by the poll.
Returned(r) == r.value

\* Leaving the loop by `return result;`: the result is moved out, then the
\* locals go out of scope, `context` and `waker` first (the waker's drop is
\* vtable entry 4).
Return ==
    /\ pc = "ret"
    /\ result' = Returned(lastPoll)
    /\ exit' = "return"
    /\ wakeSlot' = vt_drop(waker.data, wakeSlot)
    /\ waker' = NoWaker
    /\ pc' = "drop_future"
    /\ UNCHANGED <<run2, entry, fut, wait, clones, polls, waits, trace, lastPoll,
                   wakeCalls, calls, ub>>

\* `wait()` is entered.
WaitBegin ==
    /\ pc = "wait"
    /\ waits' = waits + 1
    /\ trace' = Append(trace, "wait")
    /\ pc' = "waiting"
    /\ UNCHANGED <<run2, entry, fut, wait, wakeSlot, waker, clones, polls, lastPoll,
                   result, exit, wakeCalls, calls, ub>>

\* `wait()` returns and the loop repeats, or it panics.
WaitEnd ==
    /\ pc = "waiting"
    /\ pc' = IF wait.panicAt = waits THEN "unwind" ELSE "loop"
    /\ UNCHANGED <<run2, entry, fut, wait, wakeSlot, waker, clones, polls, waits, trace,
                   lastPoll, result, exit, wakeCalls, calls, ub>>

\* A panic in poll or wait unwinds run_with_wake: nothing catches it, the
\* locals are dropped as on return.
Unwind ==
    /\ pc = "unwind"
    /\ exit' = "panic"
    /\ wakeSlot' = vt_drop(waker.data, wakeSlot)
    /\ waker' = NoWaker
    /\ pc' = "drop_future"
    /\ UNCHANGED <<run2, entry, fut, wait, clones, polls, waits, trace, lastPoll, result,
                   wakeCalls, calls, ub>>

\* The pinned future is dropped, and with it the waker clones it stored
\* (each through vtable entry 4, which leaves the closure alone).
DropFuture ==
    /\ pc = "drop_future"
    /\ clones' = [c \in {d \in DOMAIN clones : d.owner # "fut"} |-> clones[c]]
    /\ wakeSlot' = DropAll({d \in DOMAIN clones : d.owner = "fut"}, wakeSlot)
    /\ pc' = "drop_wake"
    /\ UNCHANGED <<run2, entry, fut, wait, waker, polls, waits, trace, lastPoll,
                   result, exit, wakeCalls, calls, ub>>

\* The parameters `wake` and `wait` are dropped last; the call is over.
DropWake ==
    /\ pc = "drop_wake"
    /\ wakeSlot' = [wakeSlot EXCEPT !.live = FALSE]
    /\ pc' = "done"
    /\ UNCHANGED <<run2, entry, fut, wait, waker, clones, polls, waits, trace, lastPoll,
                   result, exit, wakeCalls, calls, ub>>

Driver ==
    \/ RunSpinning
    \/ Run
    \/ RunWithWake
    \/ PollBegin
    \/ PollEnd
    \/ Return
    \/ WaitBegin
    \/ WaitEnd
    \/ Unwind
    \/ DropFuture
    \/ DropWake

\* ---------------------------------------------------------------- handles
\* The handles somebody can use now.  The context's waker is borrowed by the
\* future for the length of a poll; the future's own clones are used by its
\* code, which runs inside poll and inside its drop; a clone handed to
\* another context (an interrupt handler, a thread) is used at any time.
CtxWaker == [raw |-> waker, owner |-> "ctx"]
Usable ==
    {h \in {CtxWaker} : waker # NoWaker /\ pc = "polling"}
    \cup {h \in DOMAIN clones : h.owner = "fut" /\ pc \in {"polling", "drop_future"}}
    \cup {h \in DOMAIN clones : h.owner = "ext"}

\* Who runs the code that uses handle h.
Actor(h) == IF h.owner = "ext" THEN "ext" ELSE "fut"

One(h) == SetToBag({h})

\* Waker::clone through vtable entry 1; the clone is kept by the future or
\* handed to another context.
Clone ==
    \E h \in Usable, o \in Actors :
        /\ Actor(h) = "ext" => o = "ext"
        /\ BagCardinality(clones) < MaxHandles
        /\ clones' = clones (+) One([raw |-> vt_clone(h.raw.data), owner |-> o])
        /\ UNCHANGED <<run2, entry, pc, fut, wait, wakeSlot, waker, polls, waits,
                       trace, lastPoll, result, exit, wakeCalls, calls, ub>>

\* The effect of vtable entry 2 or 3 on handle h. While the closure is
\* live it is called once. After run_with_wake has dropped it the pointer
\* dangles and the behaviour is undefined: the stale closure may run, nothing
\* may happen, or the caller may crash.
WakeThrough(h) ==
    /\ wakeCalls["fut"] + wakeCalls["ext"] < MaxWakes
    /\ wakeCalls' = [wakeCalls EXCEPT ![Actor(h)] = @ + 1]
    /\ IF Deref(h.raw.data, wakeSlot) \in Closures
       THEN /\ calls' = vt_wake(h.raw.data, wakeSlot, Actor(h), calls)
            /\ ub' = ub
       ELSE \E o \in {"stale_call", "no_call", "crash"} :
            /\ ub' = o
            /\ calls' = IF o = "stale_call" /\ wakeSlot.fn \in Closures
                        THEN [calls EXCEPT ![wakeSlot.fn][Actor(h)] = @ + 1]
                        ELSE calls

\* A wake_by_ref that also cuts the driver's wait short.
WakeByRef_EndsWait ==
    \E h \in Usable :
        /\ WakeThrough(h)
        /\ pc' = IF pc = "waiting" THEN "loop" ELSE pc
        /\ UNCHANGED <<run2, entry, fut, wait, wakeSlot, waker, clones, polls,
                       waits, trace, lastPoll, result, exit>>

\* Waker::wake_by_ref: vtable entry 3, the handle is kept.
WakeByRef ==
    \E h \in Usable :
        /\ WakeThrough(h)
        /\ UNCHANGED <<run2, entry, pc, fut, wait, wakeSlot, waker, clones, polls,
                       waits, trace, lastPoll, result, exit>>

\* A wake that makes the driver start the poll over.
Wake_Repolls ==
    \E h \in Usable \ {CtxWaker} :
        /\ WakeThrough(h)
        /\ clones' = clones (-) One(h)
        /\ pc' = IF pc = "polling" THEN "loop" ELSE pc
        /\ UNCHANGED <<run2, entry, fut, wait, wakeSlot, waker, polls, waits,
                       trace, lastPoll, result, exit>>

\* Waker::wake: vtable entry 2, the handle is consumed without a drop.
Wake ==
    \E h \in Usable \ {CtxWaker} :
        /\ WakeThrough(h)
        /\ clones' = clones (-) One(h)
        /\ UNCHANGED <<run2, entry, pc, fut, wait, wakeSlot, waker, polls, waits,
                       trace, lastPoll, result, exit>>

\* Dropping a clone: vtable entry 4.
DropHandle ==
    \E h \in Usable \ {CtxWaker} :
        /\ wakeSlot' = vt_drop(h.raw.data, wakeSlot)
        /\ clones' = clones (-) One(h)
        /\ UNCHANGED <<run2, entry, pc, fut, wait, waker, polls, waits, trace,
                       lastPoll, result, exit, wakeCalls, calls, ub>>

Next ==
    \/ RunSpinning
    \/ Run
    \/ RunWithWake
    \/ PollBegin
    \/ PollEnd
    \/ Return
    \/ WaitBegin
    \/ WaitEnd
    \/ Unwind
    \/ DropFuture
    \/ DropWake
    \/ Clone
    \/ WakeByRef
    \/ Wake
    \/ DropHandle

Spec == Init /\ [][Next]_vars

\* The calling thread keeps running: a poll and a wait that were entered
\* come back (by returning or by panicking), and the driver's own steps
\* are taken.  Nothing is assumed about the holders of waker handles.
FairSpec == Spec /\ WF_vars(Driver)

\* ---------------------------------------------------------------- two calls
\* A second run_with_wake call, on another future, with a wait that returns
\* and a wake closure of its own, runs interleaved with the first: on
\* another thread, or started from inside the first call's poll or wait.
\* Its steps are those of the first call, on its own frame.
Futures2 == {f \in Futures : f.kind = "ready"}

TwoInit ==
    /\ entry = "run_with_wake"
    /\ pc = entry
    /\ fut \in Futures2
    /\ wait = [op |-> "user", panicAt |-> 0]
    /\ wakeSlot = [fn |-> "user", live |-> TRUE]
    /\ waker = NoWaker
    /\ clones = EmptyBag
    /\ polls = 0
    /\ waits = 0
    /\ trace = <<>>
    /\ lastPoll = NotPolled
    /\ result = NoValue
    /\ exit = "none"
    /\ wakeCalls = [a \in Actors |-> 0]
    /\ calls = [f \in Closures |-> [a \in Actors |-> 0]]
    /\ ub = "no"
    /\ \E f \in Futures2 :
           run2 = [NoRun2 EXCEPT !.pc = "run_with_wake", !.fut = f,
                                 !.wakeSlot = [fn |-> "user2", live |-> TRUE]]

\* The `wake` parameter that lives at address p.
SlotAt(p) ==
    IF p = WakePtr THEN wakeSlot
    ELSE IF p = WakePtr2 THEN run2.wakeSlot
    ELSE [fn |-> "unset", live |-> FALSE]

RunWithWake2 ==
    /\ run2.pc = "run_with_wake"
    /\ run2' = [run2 EXCEPT !.waker = create_raw_waker(WakePtr2), !.pc = "loop"]
    /\ UNCHANGED <<run1Vars, calls, ub>>

PollBegin2 ==
    /\ run2.pc = "loop"
    /\ run2.polls < MaxPolls
    /\ run2' = [run2 EXCEPT !.polls = @ + 1, !.pc = "polling"]
    /\ UNCHANGED <<run1Vars, calls, ub>>

PollEnd2 ==
    /\ run2.pc = "polling"
    /\ run2' = [run2 EXCEPT !.lastPoll = FuturePoll(run2.fut, run2.polls),
                            !.pc = AfterPoll(FuturePoll(run2.fut, run2.polls))]
    /\ UNCHANGED <<run1Vars, calls, ub>>

WaitBegin2 ==
    /\ run2.pc = "wait"
    /\ run2' = [run2 EXCEPT !.waits = @ + 1, !.pc = "waiting"]
    /\ UNCHANGED <<run1Vars, calls, ub>>

WaitEnd2 ==
    /\ run2.pc = "waiting"
    /\ run2' = [run2 EXCEPT !.pc = "loop"]
    /\ UNCHANGED <<run1Vars, calls, ub>>

Return2 ==
    /\ run2.pc = "ret"
    /\ run2' = [run2 EXCEPT !.result = Returned(run2.lastPoll), !.exit = "return",
                            !.wakeSlot = vt_drop(run2.waker.data, run2.wakeSlot),
                            !.waker = NoWaker, !.pc = "drop_future"]
    /\ UNCHANGED <<run1Vars, calls, ub>>

\* The future, then the `wake` and `wait` parameters are dropped.
Drop2 ==
    /\ run2.pc = "drop_future"
    /\ run2' = [run2 EXCEPT !.wakeSlot.live = FALSE, !.pc = "done"]
    /\ UNCHANGED <<run1Vars, calls, ub>>

\* wake_by_ref on the second call's waker, during one of its polls.
WakeByRef2 ==
    /\ run2.pc = "polling"
    /\ run2.wakeCalls < MaxWakes
    /\ LET p == run2.waker.data
       IN  IF Deref(p, SlotAt(p)) \in Closures
           THEN /\ calls' = vt_wake(p, SlotAt(p), "fut", calls)
                /\ ub' = ub
           ELSE /\ ub' \in {"stale_call", "no_call", "crash"}
                /\ calls' = IF ub' = "stale_call" /\ SlotAt(p).fn \in Closures
                            THEN [calls EXCEPT ![SlotAt(p).fn]["fut"] = @ + 1]
                            ELSE calls
    /\ run2' = [run2 EXCEPT !.wakeCalls = @ + 1]
    /\ UNCHANGED run1Vars

TwoNext ==
    \/ RunWithWake
    \/ PollBegin
    \/ PollEnd
    \/ Return
    \/ WaitBegin
    \/ WaitEnd
    \/ DropFuture
    \/ DropWake
    \/ WakeByRef
    \/ RunWithWake2
    \/ PollBegin2
    \/ PollEnd2
    \/ Return2
    \/ WaitBegin2
    \/ WaitEnd2
    \/ Drop2
    \/ WakeByRef2

TwoSpec == TwoInit /\ [][TwoNext]_vars

TypeOK ==
    /\ entry \in Entries
    /\ pc \in Entries \cup {"loop", "polling", "ret", "wait", "waiting",
                            "unwind", "drop_future", "drop_wake", "done"}
    /\ fut \in Futures
    /\ polls \in 0..MaxPolls
    /\ waits \in 0..MaxPolls
    /\ exit \in {"none", "return", "panic"}
    /\ result \in Values \cup {NoValue}
    /\ wakeCalls \in [Actors -> 0..MaxWakes]
    /\ BagCardinality(clones) <= MaxHandles
    /\ ub \in {"no", "stale_call", "no_call", "crash"}

\* ---------------------------------------------------------------- claims
Total(f) == f["fut"] + f["ext"]

\* The closure behind the waker of this run.
Supplied == IF entry = "run_with_wake" THEN "user" ELSE "noop"

\* poll, wait, poll, ..., poll: n waits between n + 1 polls.
ExpectedTrace(n) == [i \in 1..(2 * n + 1) |-> IF i % 2 = 1 THEN "poll" ELSE "wait"]

Alternates(t) == \A i \in 1..Len(t) : t[i] = IF i % 2 = 1 THEN "poll" ELSE "wait"

\* No invocation of the wait closure that this future causes panics.
WaitReturns == wait.panicAt = 0 \/ wait.panicAt > fut.pendings

\* C1: a run of a future that reports Pending N times and then Ready(V)
\* returns V, the value of poll N + 1, after exactly N + 1 polls and exactly
\* N invocations of wait.
C1_CountsAndValue ==
    (fut.kind = "ready" /\ exit = "return") =>
        /\ polls = fut.pendings + 1
        /\ waits = fut.pendings
        /\ lastPoll = Ready(fut.value)
        /\ result = fut.value

C1_Witness ==
    /\ entry = "run"
    /\ fut = [kind |-> "ready", pendings |-> 2, value |-> "v42"]
    /\ pc = "done"
    /\ exit = "return"
    /\ result = "v42"
    /\ waits = 2

\* C2 as stated: with a future that is Ready(V) on its first poll the run
\* returns V after one poll, and during the run neither wait nor the wake
\* callback is invoked.
C2_NoWaitNoWakeCallback ==
    (fut.kind = "ready" /\ fut.pendings = 0) =>
        /\ waits = 0
        /\ pc # "done" => Total(calls["user"]) = 0
        /\ exit = "return" => (polls = 1 /\ result = fut.value)

\* C2 as amended: with a future that is Ready(V) on its first poll the run
\* returns V after one poll and wait is never invoked; the driver itself
\* never invokes the wake callback: during the run it has been invoked once
\* per wake call made on the waker or a clone with run_with_wake, and never
\* with run and run_spinning.
C2_NoWaitOneCallbackPerWake ==
    (fut.kind = "ready" /\ fut.pendings = 0) =>
        /\ waits = 0
        /\ pc # "done" =>
              Total(calls["user"]) =
                  IF entry = "run_with_wake" THEN Total(wakeCalls) ELSE 0
        /\ exit = "return" => (polls = 1 /\ result = fut.value)

C2_Witness ==
    /\ entry = "run_spinning"
    /\ fut = [kind |-> "ready", pendings |-> 0, value |-> "v7"]
    /\ pc = "done"
    /\ exit = "return"
    /\ result = "v7"
    /\ polls = 1
    /\ waits = 0
    /\ Total(wakeCalls) = 0

\* C3: polls and waits alternate, starting with a poll; a wait is only ever
\* entered after a poll that reported Pending.
C3_Alternation ==
    /\ Alternates(trace)
    /\ polls + waits = Len(trace)
    /\ pc \in {"wait", "waiting"} => lastPoll = Pending
    /\ (trace # <<>> /\ trace[Len(trace)] = "wait") =>
           lastPoll.tag \in {"Pending"}

C3_Witness ==
    /\ trace = <<"poll", "wait", "poll", "wait", "poll">>
    /\ pc = "done"
    /\ exit = "return"

\* C4: the run returns only from the position reached by a poll that
\* reported Ready, never while the last poll is Pending; after a Ready poll
\* there is no further poll and no further wait.
C4_ReturnOnlyAfterReady ==
    /\ [][(pc' = "ret" /\ pc # "ret") =>
              (pc = "polling" /\ lastPoll'.tag = "Ready")]_vars
    /\ [][(exit' = "return" /\ exit # "return") =>
              (pc = "ret" /\ lastPoll.tag = "Ready")]_vars
    /\ [][lastPoll.tag = "Ready" =>
              (polls' = polls /\ waits' = waits /\ lastPoll' = lastPoll)]_vars
    /\ [](exit = "return" => lastPoll.tag = "Ready")

C4_Witness ==
    /\ exit = "return"
    /\ pc = "drop_future"
    /\ lastPoll.tag = "Ready"
    /\ polls = MaxPending + 1
    /\ waits = MaxPending

\* C5: a future that becomes Ready after finitely many polls, with a wait
\* that returns every time, makes the run return; a future that is Pending
\* on every poll never lets the run return, whatever wait and wake do.
C5_Termination ==
    /\ []((fut.kind = "ready" /\ WaitReturns) =>
              <>(pc = "done" /\ exit = "return"))
    /\ [](fut.kind = "never" => (exit # "return" /\ result = NoValue))

C5_Witness ==
    /\ fut.kind = "never"
    /\ polls = MaxPolls
    /\ waits = MaxPolls
    /\ pc = "waiting"
    /\ Total(wakeCalls) = MaxWakes
    /\ exit = "none"

\* C6: with run_with_wake every wake or wake_by_ref the future makes on the
\* waker of its context (or on its copy of it) invokes the caller's wake
\* closure exactly once and nothing else; k calls give k invocations.
C6_OneCallbackPerWake ==
    /\ [][(entry = "run_with_wake" /\ wakeCalls'["fut"] = wakeCalls["fut"] + 1) =>
              /\ calls'["user"]["fut"] = calls["user"]["fut"] + 1
              /\ calls'["user"]["ext"] = calls["user"]["ext"]
              /\ calls'["noop"] = calls["noop"]]_vars
    /\ [](entry = "run_with_wake" =>
              /\ calls["user"]["fut"] = wakeCalls["fut"]
              /\ calls["noop"]["fut"] = 0)

C6_Witness ==
    /\ entry = "run_with_wake"
    /\ pc = "polling"
    /\ wakeCalls["fut"] = MaxWakes
    /\ calls["user"]["fut"] = MaxWakes

\* C7: a clone behaves like its source, whatever was discarded before: every
\* wake call on a clone held by another context invokes the closure of this
\* run exactly once.
C7_CloneWakesLikeSource ==
    [][wakeCalls'["ext"] = wakeCalls["ext"] + 1 =>
          /\ calls'[Supplied]["ext"] = calls[Supplied]["ext"] + 1
          /\ ub' = "no"]_vars

\* C8: with the no-op waker of run and run_spinning a wake call changes
\* nothing of the run: the driver's state is untouched by it, the caller's
\* closure is not invoked, and a run that returns has made the polls and
\* waits of the run without wake calls and returns the future's value.
C8_NoopWakeNoEffect ==
    /\ [][(entry \in {"run", "run_spinning"} /\ wakeCalls' # wakeCalls) =>
              /\ UNCHANGED driverVars
              /\ UNCHANGED <<fut, wait>>
              /\ calls'["user"] = calls["user"]]_vars
    /\ []((entry \in {"run", "run_spinning"} /\ exit = "return") =>
              /\ trace = ExpectedTrace(fut.pendings)
              /\ waits = fut.pendings
              /\ result = fut.value)

C8_Witness ==
    /\ entry = "run"
    /\ pc = "done"
    /\ exit = "return"
    /\ fut.pendings = MaxPending
    /\ wakeCalls["fut"] = MaxWakes
    /\ calls["noop"]["fut"] = MaxWakes
    /\ trace = ExpectedTrace(MaxPending)

\* C9: every wake call, whenever it is made, reaches a closure that is
\* still live: no wake goes through a dangling pointer.
C9_WakeReachesLiveClosure == ub = "no"

\* C10: wake calls from another context, at any point of the run, leave the
\* driver's state alone: polls and waits still alternate, a run that
\* returns returns the future's value, and the run of a future that becomes
\* Ready (with a wait that returns) still returns.
C10_ConcurrentWakeHarmless ==
    /\ [][wakeCalls'["ext"] # wakeCalls["ext"] => UNCHANGED driverVars]_vars
    /\ [](wakeCalls["ext"] > 0 =>
              /\ Alternates(trace)
              /\ exit = "return" => (lastPoll = Ready(fut.value) /\ result = fut.value))
    /\ []((fut.kind = "ready" /\ WaitReturns /\ wakeCalls["ext"] > 0) =>
              <>(pc = "done" /\ exit = "return" /\ result = fut.value))

C10_Witness ==
    /\ entry = "run_with_wake"
    /\ pc = "polling"
    /\ polls = 1
    /\ wakeCalls["ext"] = MaxWakes
    /\ calls["user"]["ext"] = MaxWakes

\* The positions between the fabrication of the waker and the end of the call.
InRun == {"loop", "polling", "ret", "wait", "waiting", "unwind",
          "drop_future", "drop_wake"}

\* C11: the driver fabricates its waker once, around the address of its
\* `wake` parameter; from then until the call is over, the drop of the
\* future included, the closure at that address is live, every handle
\* refers to it, and every wake call reaches it.
C11_ClosureLiveDuringRun ==
    /\ [][waker' # waker =>
              \/ (pc = "run_with_wake" /\ waker = NoWaker
                  /\ waker' = create_raw_waker(WakePtr))
              \/ (pc \in {"ret", "unwind"} /\ waker' = NoWaker)]_vars
    /\ [](pc \in InRun =>
              /\ wakeSlot.live
              /\ \A h \in DOMAIN clones : Deref(h.raw.data, wakeSlot) = Supplied
              /\ waker # NoWaker => Deref(waker.data, wakeSlot) = Supplied)
    /\ [](pc # "done" => ub = "no")
    /\ [][(pc # "done" /\ wakeCalls' # wakeCalls) =>
              Total(calls'[Supplied]) = Total(calls[Supplied]) + 1]_vars

C11_Witness ==
    /\ entry = "run_with_wake"
    /\ pc = "drop_future"
    /\ BagCardinality(clones) = MaxHandles
    /\ \E h \in DOMAIN clones : h.owner = "fut"
    /\ wakeCalls["fut"] = MaxWakes
    /\ calls["user"]["fut"] = MaxWakes
    /\ ub = "no"

\* What a finished call leaves behind, from the future and the wait closure
\* alone: how it ended, the value, and the polls and waits in order.
WaitPanics == wait.panicAt > 0 /\ (fut.kind = "never" \/ wait.panicAt <= fut.pendings)
ExpectedOutcome ==
    IF WaitPanics
    THEN <<"panic", NoValue, ExpectedTrace(wait.panicAt - 1) \o <<"wait">> >>
    ELSE IF fut.kind = "ready"
    THEN <<"return", fut.value, ExpectedTrace(fut.pendings)>>
    ELSE <<"panic", NoValue, ExpectedTrace(fut.pendings)>>

\* Nothing of the run has happened yet.
Fresh ==
    /\ waker = NoWaker /\ clones = EmptyBag
    /\ polls = 0 /\ waits = 0 /\ trace = <<>>
    /\ lastPoll = NotPolled /\ result = NoValue /\ exit = "none"

\* C12: run_spinning hands its future unpolled to run with the spin hint as
\* wait, run hands it unpolled to run_with_wake with a closure that does
\* nothing, and the one loop of run_with_wake does the rest: a finished call
\* has the polls, waits and result that the future and the wait closure
\* determine, whichever entry point was used.
C12_OneSharedLoop ==
    /\ (pc = "run" /\ entry = "run_spinning") => (Fresh /\ wait = SpinLoopHint)
    /\ (pc = "run_with_wake" /\ entry # "run_with_wake") =>
           /\ Fresh
           /\ wakeSlot = [fn |-> "noop", live |-> TRUE]
           /\ entry = "run_spinning" => wait = SpinLoopHint
    /\ pc \in InRun => (wakeSlot.live /\ wakeSlot.fn = Supplied)
    /\ pc = "done" => <<exit, result, trace>> = ExpectedOutcome

C12_Witness ==
    /\ entry = "run_spinning"
    /\ wait = SpinLoopHint
    /\ pc = "done"
    /\ fut = [kind |-> "ready", pendings |-> MaxPending, value |-> "v7"]
    /\ <<exit, result, trace>> = <<"return", "v7", ExpectedTrace(MaxPending)>>

\* C13: a panic of the poll or of wait is taken straight to the caller: the
\* step that follows it unwinds; from then on nothing is polled, nothing is
\* waited for and no value is returned.
C13_PanicPropagates ==
    /\ [][(pc = "polling" /\ pc' # pc /\ FuturePoll(fut, polls) = Panicked) =>
              (pc' = "unwind" /\ lastPoll' = Panicked)]_vars
    /\ [][(pc = "waiting" /\ pc' # pc /\ wait.panicAt = waits) =>
              pc' = "unwind"]_vars
    /\ [][(pc = "unwind" \/ exit = "panic") =>
              /\ polls' = polls /\ waits' = waits /\ trace' = trace
              /\ result' = NoValue
              /\ exit' # "return"
              /\ pc' # pc => exit' = "panic"
              /\ pc' \in {"unwind", "drop_future", "drop_wake", "done"}]_vars
    /\ [](exit = "panic" =>
              (result = NoValue /\ (lastPoll = Panicked \/ wait.panicAt = waits)))

C13_Witness ==
    /\ pc = "done"
    /\ exit = "panic"
    /\ fut.kind = "ready"
    /\ wait.panicAt = 1
    /\ polls = 1
    /\ waits = 1
    /\ result = NoValue

\* C15: the driver polls again after every wait that returns, wake call or
\* not, and a wake call moves the driver nowhere: it starts no poll, skips
\* no wait and ends no wait.
C15_OwnCadence ==
    /\ [][(pc = "waiting" /\ pc' # pc /\ wait.panicAt # waits) => pc' = "loop"]_vars
    /\ [][(pc = "loop" /\ pc' # pc) => (pc' = "polling" /\ polls' = polls + 1)]_vars
    /\ []((pc = "loop" /\ polls < MaxPolls) => ENABLED PollBegin)
    /\ [][wakeCalls' # wakeCalls => UNCHANGED <<pc, polls, waits, trace>>]_vars

C15_Witness ==
    /\ pc = "polling"
    /\ polls = MaxPending + 1
    /\ waits = MaxPending
    /\ Total(wakeCalls) = 0

\* C16: one poll at a time, and nothing but the wait while wait executes:
\* while a poll is in flight no poll and no wait starts, while wait executes
\* no poll and no further wait starts.
C16_OneAtATime ==
    /\ [][pc = "polling" => UNCHANGED <<polls, waits, trace>>]_vars
    /\ [][pc = "waiting" => UNCHANGED <<polls, waits, trace, lastPoll, result>>]_vars
    /\ [](pc = "polling" => (polls = waits + 1 /\ trace[Len(trace)] = "poll"))
    /\ [](pc = "waiting" => (polls = waits /\ trace[Len(trace)] = "wait"))

C16_Witness ==
    /\ pc = "waiting"
    /\ waits = MaxPending
    /\ Total(wakeCalls) = MaxWakes
    /\ BagCardinality(clones) = MaxHandles

\* C17: the closure of the run is invoked by wake calls only, so at any
\* point it has been invoked as often as wake has been called on the
\* handles of the run.
C17_InvocationsEqualWakeCalls ==
    /\ Total(calls[Supplied]) = Total(wakeCalls)
    /\ \A f \in Closures \ {Supplied} : Total(calls[f]) = 0

\* C14: of two interleaved or nested calls on two futures each returns the
\* value of its own future after one wait per Pending poll of that future,
\* and a wake on the waker of a call invokes the closure of that call only.
C14_CallsSelfContained ==
    /\ exit = "return" =>
           (result = fut.value /\ polls = fut.pendings + 1 /\ waits = fut.pendings)
    /\ run2.exit = "return" =>
           /\ run2.result = run2.fut.value
           /\ run2.polls = run2.fut.pendings + 1
           /\ run2.waits = run2.fut.pendings
    /\ pc = "loop" => waits = polls
    /\ run2.pc = "loop" => run2.waits = run2.polls
    /\ Total(calls["user"]) = Total(wakeCalls)
    /\ Total(calls["user2"]) = run2.wakeCalls
    /\ Total(calls["noop"]) = 0
    /\ ub = "no"

\* The second call has returned its own value while the first call, one
\* wait behind it, is inside its second poll.
C14_Witness ==
    /\ pc = "polling" /\ polls = 2 /\ waits = 1
    /\ fut = [kind |-> "ready", pendings |-> 1, value |-> "v7"]
    /\ run2.pc = "done" /\ run2.exit = "return"
    /\ run2.fut = [kind |-> "ready", pendings |-> MaxPending, value |-> "v42"]
    /\ run2.result = "v42"
    /\ run2.waits = MaxPending
    /\ wakeCalls["fut"] = MaxWakes /\ run2.wakeCalls = MaxWakes

====
